---- MODULE Spec2Model ----
(* Glyph vectorization pipeline, glyph cache, font registry and the text   *)
(* entry points of the drawer (src/src/font.rs, src/src/draw.rs).          *)
EXTENDS Integers, Sequences, FiniteSets, TLC

(***************************************************************************)
(* Bounds                                                                  *)
(***************************************************************************)
\* largest bitmap width / height the pipeline is run on
MaxW == 3
MaxH == 3
\* largest number of pixels of such a bitmap
MaxPixels == 9
\* ring-shaped bitmaps: largest side of the hole, largest wall thickness
MaxHole == 1
MaxWall == 3
\* key tracker: the keys sent are those on the lowest MaxKeyBits bit numbers
MaxKeyBits == 2
\* longest string given to Drawer::text
MaxStrLen == 2
\* number of vectorize runs on the caches that are registered
MaxMisses == 2
\* longest chain of Transformables derived one from the other
MaxChain == 1
\* number of draw() calls on one Transformable
MaxCalls == 1
\* number of Transformables made by one Drawer
MaxDraws == 1
\* the same where the Drawer is followed through its builder chains
MaxChainDraws == 2
\* depth of with_camera calls made one inside the closure of the other
MaxNesting == 3

(***************************************************************************)
(* Option values: None is the empty sequence, Some(v) a one-element one.   *)
(***************************************************************************)
None == <<>>
Some(v) == <<v>>

(***************************************************************************)
(* Bitmaps: [width, height, bytes], bytes row-major (font.rs:84,88).       *)
(***************************************************************************)
\* coverage values a rasterizer produces here: empty and covered
Coverage == {0, 255}

BitmapSizes == { wh \in (0..MaxW) \X (0..MaxH) : wh[1] * wh[2] <= MaxPixels }

Bitmaps ==
    UNION { { [width |-> wh[1], height |-> wh[2], bytes |-> b] :
                b \in [1..(wh[1] * wh[2]) -> Coverage] } :
            wh \in BitmapSizes }

\* font.rs:84   let get = |[x, y]| bytes[y * metrics.width + x] > 0;
get(bm, p) == bm.bytes[p[2] * bm.width + p[1] + 1] > 0

\* font.rs:172-204. The eight neighbours in the order l, r, t, b, tl, tr,
\* bl, br; a neighbour outside the bitmap is None, and so is every corner
\* when corners is false.  (width - 1 is only evaluated for width >= 1: the
\* function is called for pixels of the bitmap only.)
neighbors(p, width, height, corners) ==
    LET x == p[1]
        y == p[2]
        l == IF x > 0 THEN Some(<<x - 1, y>>) ELSE None
        r == IF x < width - 1 THEN Some(<<x + 1, y>>) ELSE None
        t == IF y > 0 THEN Some(<<x, y - 1>>) ELSE None
        b == IF y < height - 1 THEN Some(<<x, y + 1>>) ELSE None
        zip(h, v) == IF h # None /\ v # None /\ corners
                     THEN Some(<<h[1][1], v[1][2]>>) ELSE None
    IN  << l, r, t, b, zip(l, t), zip(r, t), zip(l, b), zip(r, b) >>

\* the count without the neighbours that are outside the bitmap
empty_countInside(bm, p) ==
    LET ns == neighbors(p, bm.width, bm.height, TRUE)
    IN  Cardinality({ k \in 1..8 : ns[k] # None /\ ~get(bm, ns[k][1]) })

\* font.rs:92-94  the number of neighbours that are outside or uncovered
empty_count(bm, p) ==
    LET ns == neighbors(p, bm.width, bm.height, TRUE)
    IN  Cardinality({ k \in 1..8 : ns[k] = None \/ ~get(bm, ns[k][1]) })

\* a detection loop that looks at the four orthogonal neighbours only
IsEdgeOrthogonal(bm, i) ==
    LET p == << i % bm.width, i \div bm.width >>
        ns == neighbors(p, bm.width, bm.height, FALSE)
    IN  /\ bm.bytes[i + 1] # 0
        /\ \E k \in 1..4 : ns[k] = None \/ ~get(bm, ns[k][1])

\* font.rs:88-97  one iteration of the detection loop for byte index i
IsEdge(bm, i) ==
    LET p == << i % bm.width, i \div bm.width >>
    IN  /\ bm.bytes[i + 1] # 0
        /\ 1 <= empty_count(bm, p) /\ empty_count(bm, p) <= 7

\* font.rs:85-98  the BoundarySet of a bitmap
DetectEdges(bm) ==
    { << i % bm.width, i \div bm.width >> :
        i \in { j \in 0..(Len(bm.bytes) - 1) : IsEdge(bm, j) } }

\* the neighbours of p still in edges, the diagonal ones included
neighbor_edgesWithCorners(p, edges, width, height) ==
    LET ns == neighbors(p, width, height, TRUE)
        present == SelectSeq(ns, LAMBDA n : n # None /\ n[1] \in edges)
    IN  [ k \in 1..Len(present) |-> present[k][1] ]

\* font.rs:130-134  the 4-neighbours of p still in edges, in l, r, t, b order
neighbor_edges(p, edges, width, height) ==
    LET ns == neighbors(p, width, height, FALSE)
        present == SelectSeq(ns, LAMBDA n : n # None /\ n[1] \in edges)
    IN  [ k \in 1..Len(present) |-> present[k][1] ]

\* the removal loop skipping the neighbour that is appended
RemovedSkipFirst(nes) == { nes[k] : k \in 2..Len(nes) }

\* a removal loop that takes nothing out of edges
RemovedNone(nes) == {}

\* font.rs:138-140  what one extension step takes out of edges
Removed(nes) == { nes[k] : k \in 1..Len(nes) }

\* a contour pushed without its start pixel
NewPolyEmpty(first) == <<>>

\* font.rs:126  vec![first], the contour as it is pushed
NewPoly(first) == << first >>

\* font.rs:141  poly.extend(neighbor_edges.into_iter().next())
Extended(poly, nes) == Append(poly, nes[1])

\* the path builder starting from polys[0] without looking at the length
PathOfFirstContour(polys) ==
    [ panic |-> polys = <<>> \/ \E k \in 1..Len(polys) : polys[k] = <<>>,
      subpaths |-> [ k \in 1..Len(polys) |->
                      IF polys[k] = <<>> THEN <<>>
                      ELSE Append(polys[k], polys[k][1]) ] ]

\* font.rs:147-158  the path: one closed sub-path per contour, the contour's
\* points followed by its first point again; taking the first point of an
\* empty contour panics (the unwrap of line 150).
PathOf(polys) ==
    [ panic |-> \E k \in 1..Len(polys) : polys[k] = <<>>,
      subpaths |-> [ k \in 1..Len(polys) |->
                      IF polys[k] = <<>> THEN <<>>
                      ELSE Append(polys[k], polys[k][1]) ] ]

RECURSIVE Flatten(_)
Flatten(ss) == IF ss = <<>> THEN <<>> ELSE Head(ss) \o Flatten(Tail(ss))

\* font.rs:159-166  lyon's FillTessellator seen from its call: a path with
\* no sub-path gives no vertex and no index; otherwise the vertices are the
\* points of the sub-paths and the triangles fan out from the first vertex.
TessVertices(subpaths) ==
    Flatten([ k \in 1..Len(subpaths) |->
                SubSeq(subpaths[k], 1, Len(subpaths[k]) - 1) ])

TessIndices(subpaths) ==
    LET n == Len(TessVertices(subpaths))
    IN  IF n < 3 THEN <<>>
        ELSE Flatten([ k \in 1..(n - 2) |-> << 0, k, k + 1 >> ])

EmptyGeometry == [ vertices |-> <<>>, indices |-> <<>> ]

\* The tessellator returns Ok or Err; with nothing to tessellate it has
\* nothing to fail on.
TessResults(polys) == IF polys = <<>> THEN { TRUE } ELSE { TRUE, FALSE }

\* font.rs:146-167  path building and tessellation: the geometry, or a panic
\* when a contour is empty (line 150) or the tessellator returns Err (the
\* unwrap of line 164).
Triangulate(polys, tess_ok) ==
    LET path == PathOf(polys)
    IN  IF path.panic \/ ~tess_ok
        THEN [ panic |-> TRUE, geometry |-> EmptyGeometry ]
        ELSE [ panic |-> FALSE,
               geometry |-> [ vertices |-> TessVertices(path.subpaths),
                              indices |-> TessIndices(path.subpaths) ] ]

(***************************************************************************)
(* f32 values and glyph keys                                               *)
(***************************************************************************)
\* An f32 is its sign, biased exponent and mantissa fields.
\* u32 as f32 (draw.rs:358,431), exact for the values below 2^24 used here
RECURSIVE Log2(_)
Log2(n) == IF n < 2 THEN 0 ELSE 1 + Log2(n \div 2)

U32AsF32(n) ==
    IF n = 0 THEN [ sign |-> 0, exp |-> 0, mant |-> 0 ]
    ELSE [ sign |-> 0, exp |-> 127 + Log2(n),
           mant |-> (n - 2 ^ Log2(n)) * 2 ^ (23 - Log2(n)) ]

\* font.rs:75  transmute::<f32, u32>(size): the bit pattern of the float,
\* as the pair (bit 31, bits 30..0)
to_bits(f) == << f.sign, f.exp * 2 ^ 23 + f.mant >>

\* the characters, resolutions and sizes the operations are called with
Chars == { "A", " " }
Resolutions == { 100, 200 }
\* 100.0 and 200.0
Sizes == { U32AsF32(r) : r \in Resolutions }

\* a key made of the size alone
GlyphKeySizeOnly(ch, size) == << "", to_bits(size) >>

\* font.rs:76  the HashMap key (ch, size_u32)
GlyphKey(ch, size) == << ch, to_bits(size) >>

(***************************************************************************)
(* The font library seen from its calls                                    *)
(***************************************************************************)
FontIds == { "f1", "f2" }
\* two font files that parse and one that does not
FontData == { "ttfA", "ttfB", "junk" }

\* font.rs:35  Font::from_bytes(data, ..): Ok(font) or Err
from_bytes(data) == IF data = "junk" THEN None ELSE Some(data)

\* the pixel size as a scale of the stand-in glyphs: below 200.0 scale 1
PxScale(px) == IF px.exp >= 134 THEN 2 ELSE 1

\* font.rs:83  Font::rasterize(ch, px) -> (metrics, bytes): deterministic in
\* (font, ch, px).  The 'A' of the stand-in fonts is a column of three
\* (ttfA) or two (ttfB) covered pixels, scaled with px; the space glyph is
\* the empty bitmap.
rasterize(font, ch, px) ==
    LET k == PxScale(px)
        w == IF ch = " " THEN 0 ELSE k
        h == IF ch = " " THEN 0 ELSE IF font = "ttfA" THEN 3 * k ELSE 2 * k
    IN  [ width |-> w, height |-> h, bytes |-> [ i \in 1..(w * h) |-> 255 ] ]

\* font.rs:83  the pixel size vectorize gives the rasterizer: 100.0
RasterPx(size) == U32AsF32(100)

(***************************************************************************)
(* GlyphCache::vectorize as one call                                       *)
(***************************************************************************)
\* font.rs:128-143  the inner loop: the contour and what is left of edges
RECURSIVE ExtendLoop(_, _, _, _)
ExtendLoop(poly, es, w, h) ==
    LET found == neighbor_edges(poly[Len(poly)], es, w, h)
    IN  IF found = <<>> THEN [ poly |-> poly, edges |-> es ]
        ELSE ExtendLoop(Extended(poly, found), es \ Removed(found), w, h)

\* font.rs:122-144  every list of contours the loop can end with, over the
\* orders in which edges.iter().next() can yield the start pixels
RECURSIVE TraceLoop(_, _, _, _)
TraceLoop(es, ps, w, h) ==
    IF es = {} THEN { ps }
    ELSE UNION { LET r == ExtendLoop(NewPoly(first), es \ { first }, w, h)
                 IN  TraceLoop(r.edges, Append(ps, r.poly), w, h) :
                 first \in es }

\* font.rs:82-168  the outcomes of vectorize(ch, size) on a font: a panic or
\* the (Metrics, GlyphGeometry) pair, with the pixel size rasterized at
vectorize(font, ch, size) ==
    LET px == RasterPx(size)
        bm == rasterize(font, ch, px)
    IN  UNION { { LET res == Triangulate(ps, tess_ok)
                  IN  [ panic |-> res.panic,
                        tess_ok |-> tess_ok,
                        px |-> px,
                        entry |-> [ metrics |-> [ width |-> bm.width,
                                                  height |-> bm.height ],
                                    geometry |-> res.geometry ] ] :
                  tess_ok \in TessResults(ps) } :
                ps \in TraceLoop(DetectEdges(bm), <<>>, bm.width, bm.height) }

(***************************************************************************)
(* GlyphCache                                                              *)
(***************************************************************************)
\* font.rs:57-64  From<Font> for GlyphCache
NewGlyphCache(font) == [ font |-> font, geometry |-> <<>> ]

\* glyph without the contains_key test: vectorize and insert on every call
glyphAlwaysVectorize(cache, ch, size) ==
    LET key == GlyphKey(ch, size)
    IN  { IF o.panic
          THEN [ cache |-> cache, panic |-> TRUE, miss |-> TRUE,
                 px |-> Some(o.px), tess_ok |-> o.tess_ok, ret |-> None ]
          ELSE [ cache |-> [ cache EXCEPT !.geometry = (key :> o.entry) @@ @ ],
                 panic |-> FALSE, miss |-> TRUE,
                 px |-> Some(o.px), tess_ok |-> o.tess_ok,
                 ret |-> Some(o.entry) ] :
          o \in vectorize(cache.font, ch, size) }

\* a cache that keeps the latest entry only
glyphEvicting(cache, ch, size) ==
    LET key == GlyphKey(ch, size)
    IN  IF key \in DOMAIN cache.geometry
        THEN { [ cache |-> cache, panic |-> FALSE, miss |-> FALSE,
                 px |-> None, tess_ok |-> TRUE,
                 ret |-> Some(cache.geometry[key]) ] }
        ELSE { IF o.panic
               THEN [ cache |-> cache, panic |-> TRUE, miss |-> TRUE,
                      px |-> Some(o.px), tess_ok |-> o.tess_ok, ret |-> None ]
               ELSE [ cache |-> [ cache EXCEPT !.geometry = (key :> o.entry) ],
                      panic |-> FALSE, miss |-> TRUE,
                      px |-> Some(o.px), tess_ok |-> o.tess_ok,
                      ret |-> Some(o.entry) ] :
               o \in vectorize(cache.font, ch, size) }

\* font.rs:74-81  GlyphCache::glyph: the outcomes of one call, each with the
\* cache after it, the entry returned, whether vectorize ran and at which
\* pixel size it rasterized
glyph(cache, ch, size) ==
    LET key == GlyphKey(ch, size)
    IN  IF key \in DOMAIN cache.geometry
        THEN { [ cache |-> cache, panic |-> FALSE, miss |-> FALSE,
                 px |-> None, tess_ok |-> TRUE,
                 ret |-> Some(cache.geometry[key]) ] }
        ELSE { IF o.panic
               THEN [ cache |-> cache, panic |-> TRUE, miss |-> TRUE,
                      px |-> Some(o.px), tess_ok |-> o.tess_ok, ret |-> None ]
               ELSE [ cache |-> [ cache EXCEPT
                                    !.geometry = (key :> o.entry) @@ @ ],
                      panic |-> FALSE, miss |-> TRUE,
                      px |-> Some(o.px), tess_ok |-> o.tess_ok,
                 ret |-> Some(o.entry) ] :
               o \in vectorize(cache.font, ch, size) }

\* a metrics that vectorizes on its own and leaves the cache alone
metricsUncached(cache, ch, size) ==
    { [ out |-> [ cache |-> cache, panic |-> o.panic, miss |-> TRUE,
                  px |-> Some(o.px), tess_ok |-> o.tess_ok,
                  ret |-> IF o.panic THEN None ELSE Some(o.entry) ],
        value |-> IF o.panic THEN None ELSE Some(o.entry.metrics) ] :
      o \in vectorize(cache.font, ch, size) }

\* font.rs:70-72  GlyphCache::metrics: &self.glyph(ch, size).0, the outcomes
\* of the glyph call each with the Metrics returned
metrics(cache, ch, size) ==
    { [ out |-> o,
        value |-> IF o.panic THEN None ELSE Some(o.ret[1].metrics) ] :
      o \in glyph(cache, ch, size) }

(***************************************************************************)
(* Fonts, the drawer's index buffers and drawing                           *)
(***************************************************************************)
\* a failed load that takes the identifier out of the registry
loadDropOnError(registry, id, data) ==
    LET font == from_bytes(data)
    IN  IF font = None
        THEN [ registry |-> [ registry EXCEPT ![id] = None ], result |-> "Err" ]
        ELSE [ registry |-> [ registry EXCEPT ![id] = Some(NewGlyphCache(font[1])) ],
               result |-> "Ok" ]

\* a load that keeps the cache of an identifier that is registered
loadKeepCache(registry, id, data) ==
    LET font == from_bytes(data)
    IN  IF font = None
        THEN [ registry |-> registry, result |-> "Err" ]
        ELSE [ registry |-> IF registry[id] # None THEN registry
                            ELSE [ registry EXCEPT
                                     ![id] = Some(NewGlyphCache(font[1])) ],
               result |-> "Ok" ]

\* font.rs:32-40  Fonts::load: the ? returns before insert is called
load(registry, id, data) ==
    LET font == from_bytes(data)
    IN  IF font = None
        THEN [ registry |-> registry, result |-> "Err" ]
        ELSE [ registry |-> [ registry EXCEPT ![id] = Some(NewGlyphCache(font[1])) ],
               result |-> "Ok" ]

\* draw.rs:334-363  GlyphSize and the scale of its transform, scale/resolution
GlyphSizes == { [ resolution |-> r, scale |-> 50 ] : r \in Resolutions }

\* draw.rs:401,446  a glyph vertex moved by offset and scaled by the ratio
\* scale/resolution: coordinates as numerators over the resolution
ScaledVertex(v, offset, size) ==
    [ x |-> (v[1] + offset[1]) * size.scale,
      y |-> (v[2] + offset[2]) * size.scale,
      den |-> size.resolution ]

\* draw.rs:397-406, 458-463  DrawType::Character
CharacterType(geometry, offset, ch, size) ==
    [ type |-> "Character",
      vertices |-> [ k \in 1..Len(geometry.vertices) |->
                       ScaledVertex(geometry.vertices[k], offset, size) ],
      indices |-> geometry.indices,
      ch |-> ch,
      resolution |-> size.resolution ]

EmptyType == [ type |-> "Empty" ]

\* draw.rs:656-668  Transformable::new.  called, derived and times are
\* history: whether draw() was called on it, whether a child was derived
\* from it, and how often it has been drawn.
NewTransformable(tys) ==
    [ tys |-> tys, drawn |-> FALSE, border |-> None,
      called |-> FALSE, derived |-> FALSE, times |-> 0 ]

\* the child of a builder method: the parent's draw types, not drawn
Child(self, border_) ==
    [ NewTransformable(self.tys) EXCEPT !.border = border_ ]

\* a color that leaves the parent to draw itself
colorKeepsParent(self) ==
    [ self |-> [ self EXCEPT !.derived = TRUE ],
      child |-> Child(self, self.border) ]

\* draw.rs:516-529  Transformable::color: the parent afterwards and the child
color(self) ==
    [ self |-> [ self EXCEPT !.drawn = TRUE, !.derived = TRUE ],
      child |-> Child(self, self.border) ]

\* draw.rs:530-546  Transformable::transform
transform(self) ==
    [ self |-> [ self EXCEPT !.drawn = TRUE, !.derived = TRUE ],
      child |-> Child(self, self.border) ]

\* draw.rs:547-567  Transformable::border
border(self) ==
    [ self |-> [ self EXCEPT !.drawn = TRUE, !.derived = TRUE ],
      child |-> Child(self, Some("Border")) ]

\* draw.rs:568-578  Transformable::no_border
no_border(self) ==
    [ self |-> [ self EXCEPT !.drawn = TRUE, !.derived = TRUE ],
      child |-> Child(self, None) ]

\* an unknown font reported by a panic
characterUnwrapFont(registry, ch, size, id) ==
    IF registry[id] = None
    THEN { [ registry |-> registry, panic |-> TRUE, tys |-> <<>>, calls |-> <<>> ] }
    ELSE { [ registry |-> [ registry EXCEPT ![id] = Some(o.cache) ],
             panic |-> o.panic,
             tys |-> IF o.panic THEN <<>>
                     ELSE << CharacterType(o.ret[1].geometry, << 0, 0 >>, ch, size) >>,
             calls |-> << [ ch |-> ch, size |-> U32AsF32(size.resolution),
                            out |-> o ] >> ] :
           o \in glyph(registry[id][1], ch, U32AsF32(size.resolution)) }

\* draw.rs:378-411  Drawer::character: the outcomes, each with the registry
\* after the call, the draw types of the Transformable returned and the
\* glyph calls made
character(registry, ch, size, id) ==
    IF registry[id] = None
    THEN { [ registry |-> registry, panic |-> FALSE,
             tys |-> << EmptyType >>, calls |-> <<>> ] }
    ELSE { [ registry |-> [ registry EXCEPT ![id] = Some(o.cache) ],
             panic |-> o.panic,
             tys |-> IF o.panic THEN <<>>
                     ELSE << CharacterType(o.ret[1].geometry, << 0, 0 >>, ch, size) >>,
             calls |-> << [ ch |-> ch, size |-> U32AsF32(size.resolution),
                            out |-> o ] >> ] :
           o \in glyph(registry[id][1], ch, U32AsF32(size.resolution)) }

\* draw.rs:429-452  the glyphs of the layout one after the other: glyph
\* number k of the string is laid out at x = k - 1, y = 0, height 0
RECURSIVE TextGlyphs(_, _, _, _, _, _)
TextGlyphs(cache, string, k, size, tys, calls) ==
    IF k > Len(string)
    THEN { [ cache |-> cache, panic |-> FALSE, tys |-> tys, calls |-> calls ] }
    ELSE UNION {
           IF o.panic
           THEN { [ cache |-> cache, panic |-> TRUE, tys |-> <<>>,
                    calls |-> Append(calls, [ ch |-> string[k],
                                              size |-> U32AsF32(size.resolution),
                                              out |-> o ]) ] }
           ELSE TextGlyphs(o.cache, string, k + 1, size,
                    Append(tys, CharacterType(o.ret[1].geometry,
                                    << k - 1, 0 - size.resolution >>,
                                    string[k], size)),
                    Append(calls, [ ch |-> string[k],
                                    size |-> U32AsF32(size.resolution),
                                    out |-> o ])) :
           o \in glyph(cache, string[k], U32AsF32(size.resolution)) }

\* draw.rs:412-468  Drawer::text
text(registry, string, size, id) ==
    IF registry[id] = None
    THEN { [ registry |-> registry, panic |-> FALSE,
             tys |-> << EmptyType >>, calls |-> <<>> ] }
    ELSE { [ registry |-> [ registry EXCEPT ![id] = Some(o.cache) ],
             panic |-> o.panic, tys |-> o.tys, calls |-> o.calls ] :
           o \in TextGlyphs(registry[id][1], string, 1, size, <<>>, <<>>) }

\* draw.rs:737-745  IndicesType of a draw type
IndicesTypeOf(ty) ==
    IF ty.type = "Empty" THEN << "Empty" >>
    ELSE << "Character", ty.ch, ty.resolution >>

\* draw.rs:759-761, 807  the index buffer the closure creates
NewIndexBuffer(ty) ==
    IF ty.type = "Empty" THEN [ primitive |-> "Points", data |-> <<>> ]
    ELSE [ primitive |-> "TrianglesList", data |-> ty.indices ]

\* draw.rs:811-816  IndicesCache::get_or_insert
get_or_insert(map, it, buffer) ==
    IF it \in DOMAIN map THEN map ELSE (it :> buffer) @@ map

\* draw.rs:669-722  unscaled_vertices
unscaled_vertices(ty) == IF ty.type = "Empty" THEN <<>> ELSE ty.vertices

\* draw.rs:579-655  Transformable::draw without border: one submission to
\* the surface per draw type, its index buffer taken from the IndicesCache
RECURSIVE DrawTypes(_, _, _, _)
DrawTypes(tys, k, map, submitted) ==
    IF k > Len(tys) THEN [ map |-> map, submitted |-> submitted ]
    ELSE LET it == IndicesTypeOf(tys[k])
             map2 == get_or_insert(map, it, NewIndexBuffer(tys[k]))
         IN  DrawTypes(tys, k + 1, map2,
                 Append(submitted, [ vertices |-> unscaled_vertices(tys[k]),
                                     indices |-> map2[it] ]))

\* draw.rs:611-620  the index buffer of a border around len vertices
BorderBuffer(len) ==
    [ primitive |-> "TriangleStrip",
      data |-> [ i \in 1..(2 * len) |-> i - 1 ] \o << 0, 1 >> ]

\* draw.rs:603-651  the border of every draw type that has a bounding
\* rectangle (one vertex or more): two vertices per vertex, the index buffer
\* taken from the IndicesCache under Border(len)
RECURSIVE DrawBorders(_, _, _, _)
DrawBorders(tys, k, map, borders) ==
    IF k > Len(tys) THEN [ map |-> map, borders |-> borders ]
    ELSE LET len == Len(unscaled_vertices(tys[k]))
             it == << "Border", len >>
             map2 == get_or_insert(map, it, BorderBuffer(len))
         IN  IF len = 0 THEN DrawBorders(tys, k + 1, map, borders)
             ELSE DrawBorders(tys, k + 1, map2,
                      Append(borders, [ vertices |-> 2 * len,
                                        indices |-> map2[it] ]))

\* draw.rs:579-655  Transformable::draw: the IndicesCache afterwards and
\* what was submitted to the surface
draw(self, map) ==
    LET d == DrawTypes(self.tys, 1, map, <<>>)
        b == IF self.border = None
             THEN [ map |-> d.map, borders |-> <<>> ]
             ELSE DrawBorders(self.tys, 1, d.map, <<>>)
    IN  [ map |-> b.map, submitted |-> d.submitted, borders |-> b.borders,
          self |-> [ self EXCEPT !.drawn = TRUE, !.times = @ + 1 ] ]

(***************************************************************************)
(* The key tracker (src/src/event.rs)                                      *)
(***************************************************************************)
\* event.rs:138  Bits<T>(u128): the number of bits of the set
BitsWidth == 128

\* event.rs:165-170  the discriminant of Key::Unknown, the last variant (the
\* variants of the keys! list are numbered from 0 in the order of the list)
UnknownKey == 161

\* the keys the tracker is sent, as discriminants: those whose number falls
\* on one of the lowest bits, and Unknown
Key == { k \in 0..UnknownKey : k % BitsWidth < MaxKeyBits } \cup { UnknownKey }

\* glutin's virtual key codes for these keys, as the Key of the same name
VirtualKeyCodes == Key \ { UnknownKey }

\* event.rs:71-74  input.virtual_keycode.map(Key::from_glutin)
\*                      .unwrap_or(Key::Unknown)
KeyOfInput(code) == IF code = None THEN UnknownKey ELSE code[1]

\* event.rs:180-184  From<Key> for u128: 1 << key as u128, the u128 as the
\* set of its one bits.  A shift by 128 or more overflows: a build with
\* overflow checks panics, one without shifts by the amount modulo 128.
Key_into(key) ==
    IF key < BitsWidth
    THEN { [ panic |-> FALSE, bits |-> { key } ] }
    ELSE { [ panic |-> TRUE, bits |-> {} ],
           [ panic |-> FALSE, bits |-> { key % BitsWidth } ] }

\* event.rs:150-152  self.0 |= val.into()
Bits_add(bits, val) == bits \cup val

\* event.rs:153-155  self.0 &= !val.into()
Bits_remove(bits, val) == bits \ val

\* event.rs:156-158  (self.0 & val.into()).count_ones() > 0
Bits_get(bits, val) == Cardinality(bits \cap val) > 0

(***************************************************************************)
(* Camera (draw.rs)                                                        *)
(***************************************************************************)
\* the centers and zooms the camera closures install
Centers == { << 0, 0 >>, << 1, 0 >>, << 0, 1 >> }

Zooms == { << 1, 1 >>, << 2, 2 >> }

\* the Camera a Drawer is constructed with
WindowCamera ==
    [ center |-> << 0, 0 >>, zoom |-> << 1, 1 >>, window_size |-> << 4, 2 >> ]

\* draw.rs:43-45  Camera { center, ..self }
Camera_center(self, center) == [ self EXCEPT !.center = center ]

\* draw.rs:46-48  Camera { zoom, ..self }
Camera_zoom(self, zoom) == [ self EXCEPT !.zoom = zoom ]

\* v.div(by), on window sizes that by divides
Vec2_div(v, by) == << v[1] \div by, v[2] \div by >>

\* draw.rs:128-132  the Camera built by the closure of with_absolute_camera
AbsoluteCamera(base_camera) ==
    [ center |-> Vec2_div(base_camera.window_size, 2),
      zoom |-> << 1, 1 >>,
      window_size |-> base_camera.window_size ]

\* the closures C: FnOnce(Camera) -> Camera handed to with_camera
CameraFns ==
    { [ op |-> "center", arg |-> c ] : c \in Centers }
      \cup { [ op |-> "zoom", arg |-> z ] : z \in Zooms }

\* camera(base_camera); the closure of with_absolute_camera ignores its
\* argument and uses the base_camera it has captured
ApplyCamera(f, cam) ==
    IF f.op = "center" THEN Camera_center(cam, f.arg)
    ELSE IF f.op = "zoom" THEN Camera_zoom(cam, f.arg)
    ELSE AbsoluteCamera(f.arg)

\* draw.rs:115-116  let base_camera = self.camera;
\*                  self.camera = camera(base_camera);
with_camera_call(self_camera, f) ==
    [ base_camera |-> self_camera, camera |-> ApplyCamera(f, self_camera) ]

with_camera_returnKeeps(base_camera, self_camera) == self_camera

\* draw.rs:118  self.camera = base_camera;
with_camera_return(base_camera, self_camera) == base_camera

\* draw.rs:126-133  let base_camera = self.camera; self.with_camera(|_| ..)
with_absolute_camera_call(self_camera) ==
    with_camera_call(self_camera, [ op |-> "absolute", arg |-> self_camera ])

(***************************************************************************)
(* State                                                                   *)
(***************************************************************************)
VARIABLES
    fonts,      \* Fonts.0: font id -> None or Some(GlyphCache)
    drawer,     \* None, or Some of the live Drawer (its IndicesCache)
    tfbl,       \* None, or Some of the live Transformable
    parents,    \* the Transformables the live one was derived from
    panicked,   \* a panic has ended the run
    ret,        \* the last operation and what it returned
    loaded,     \* history: per id, whether a load of it has succeeded
    draws,      \* history: the number of Transformables the Drawer has made
    hist,       \* history: per id, the glyph calls on the current cache
    camera,     \* Drawer.camera
    frames,     \* the base_camera of every with_camera call in progress
    callers,    \* history: the camera seen by the caller of each such call
    \* one run of GlyphCache::vectorize, statement by statement
    bitmap,     \* (metrics, bytes) returned by the rasterizer
    edges,      \* the HashSet edges
    polys,      \* the Vec polys
    nes,        \* first, then the Vec neighbor_edges of the inner iteration
    geom,       \* the GlyphGeometry returned
    pc,         \* position in vectorize
    \* the StateTracker
    keys,       \* tracker.keys: the one bits of the u128
    lastKey     \* history: per key, the state of its latest keyboard event

traceVars == << bitmap, edges, polys, nes, geom, pc >>

appVars ==
    << fonts, drawer, tfbl, parents, panicked, ret, loaded, draws, hist >>

keyVars == << keys, lastKey >>

cameraVars == << camera, frames, callers >>

vars == << appVars, traceVars, keyVars, cameraVars >>

(***************************************************************************)
(* History of the glyph calls on a cache                                   *)
(***************************************************************************)
\* requested: the (character, size) pairs asked for; count: per pair, how
\* often vectorize ran for it; raster: the rasterizer's calls; first: per
\* pair, the entry its first call returned; made: per pair, the entry that
\* a vectorize run for this pair produced.
EmptyHist ==
    [ requested |-> {},
      count |-> [ pr \in Chars \X Sizes |-> 0 ],
      raster |-> {},
      first |-> <<>>,
      made |-> <<>> ]

RecordCall(h, c) ==
    LET pr == << c.ch, c.size >>
    IN  [ requested |-> h.requested \cup { pr },
          count |-> IF c.out.miss THEN [ h.count EXCEPT ![pr] = @ + 1 ]
                    ELSE h.count,
          raster |-> IF c.out.miss
                     THEN h.raster \cup { [ ch |-> c.ch, size |-> c.size,
                                            px |-> c.out.px[1] ] }
                     ELSE h.raster,
          first |-> IF pr \in DOMAIN h.first \/ c.out.panic THEN h.first
                    ELSE (pr :> c.out.ret[1]) @@ h.first,
          made |-> IF c.out.miss /\ ~c.out.panic
                   THEN (pr :> c.out.ret[1]) @@ h.made
                   ELSE h.made ]

RECURSIVE RecordCalls(_, _, _)
RecordCalls(h, calls, k) ==
    IF k > Len(calls) THEN h
    ELSE RecordCalls(RecordCall(h, calls[k]), calls, k + 1)

TotalMisses ==
    LET RECURSIVE Sum(_)
        Sum(prs) == IF prs = {} THEN 0
                    ELSE LET pr == CHOOSE x \in prs : TRUE
                         IN  hist[pr[1]].count[pr[2]] + Sum(prs \ { pr })
    IN  Sum(FontIds \X (Chars \X Sizes))

\* room for the misses a call can add
MayMiss(id, n) == TotalMisses + n <= MaxMisses

Strings == UNION { [ 1..n -> Chars ] : n \in 0..MaxStrLen }

(***************************************************************************)
(* Operations                                                              *)
(***************************************************************************)
AppInit ==
    /\ fonts = [ id \in FontIds |-> None ]
    /\ drawer = None
    /\ tfbl = None
    /\ parents = <<>>
    /\ panicked = FALSE
    /\ ret = [ op |-> "init" ]
    /\ loaded = [ id \in FontIds |-> FALSE ]
    /\ draws = 0
    /\ hist = [ id \in FontIds |-> EmptyHist ]
    /\ keys = {}
    /\ lastKey = [ k \in Key |-> "None" ]
    /\ camera = WindowCamera
    /\ frames = <<>>
    /\ callers = <<>>

Init ==
    /\ AppInit
    /\ bitmap = [ width |-> 0, height |-> 0, bytes |-> <<>> ]
    /\ edges = {}
    /\ polys = <<>>
    /\ nes = <<>>
    /\ geom = None
    /\ pc = "idle"

\* font.rs:32-40  Fonts::load(id, data), called while no Drawer borrows the
\* registry.  had is history: the keys that were cached under id before.
Fonts_load(id, data) ==
    /\ ~panicked
    /\ drawer = None
    /\ LET r == load(fonts, id, data)
       IN  /\ fonts' = r.registry
           /\ loaded' = IF r.result = "Ok"
                        THEN [ loaded EXCEPT ![id] = TRUE ]
                        ELSE loaded
           /\ hist' = IF r.result = "Ok"
                      THEN [ hist EXCEPT ![id] = EmptyHist ]
                      ELSE hist
           /\ ret' = [ op |-> "load", id |-> id, data |-> data,
                       result |-> r.result,
                       had |-> IF fonts[id] = None THEN None
                               ELSE Some(DOMAIN fonts[id][1].geometry) ]
    /\ UNCHANGED << drawer, tfbl, panicked, draws, traceVars, keyVars, cameraVars,
                    parents >>

\* font.rs:41-43  Fonts::get(id)
Fonts_get(id) ==
    /\ ~panicked
    /\ drawer = None
    /\ ret' = [ op |-> "get", id |-> id, value |-> fonts[id] ]
    /\ UNCHANGED << fonts, drawer, tfbl, panicked, loaded, draws, hist,
                    traceVars, keyVars, cameraVars,
                    parents >>

\* font.rs:74-81  glyph(ch, size) on the cache registered under id
GlyphCache_glyph(id, ch, size) ==
    /\ ~panicked
    /\ drawer = None
    /\ fonts[id] # None
    /\ MayMiss(id, 1)
    /\ \E o \in glyph(fonts[id][1], ch, size) :
         /\ fonts' = [ fonts EXCEPT ![id] = Some(o.cache) ]
         /\ panicked' = o.panic
         /\ hist' = [ hist EXCEPT ![id] =
                        RecordCall(@, [ ch |-> ch, size |-> size, out |-> o ]) ]
         /\ ret' = [ op |-> "glyph", id |-> id, ch |-> ch, size |-> size,
                     miss |-> o.miss, tess_ok |-> o.tess_ok, value |-> o.ret ]
    /\ UNCHANGED << drawer, tfbl, loaded, draws, traceVars, keyVars, cameraVars,
                    parents >>

\* font.rs:70-72  metrics(ch, size): &self.glyph(ch, size).0
GlyphCache_metrics(id, ch, size) ==
    /\ ~panicked
    /\ drawer = None
    /\ fonts[id] # None
    /\ MayMiss(id, 1)
    /\ \E m \in metrics(fonts[id][1], ch, size) :
         /\ fonts' = [ fonts EXCEPT ![id] = Some(m.out.cache) ]
         /\ panicked' = m.out.panic
         /\ hist' = [ hist EXCEPT ![id] =
                        RecordCall(@, [ ch |-> ch, size |-> size,
                                        out |-> m.out ]) ]
         /\ ret' = [ op |-> "metrics", id |-> id, ch |-> ch, size |-> size,
                     miss |-> m.out.miss, tess_ok |-> m.out.tess_ok,
                     value |-> m.value ]
    /\ UNCHANGED << drawer, tfbl, loaded, draws, traceVars, keyVars, cameraVars,
                    parents >>

\* draw.rs:94-109  Drawer::new: the Drawer borrows the registry, its
\* IndicesCache is empty
Drawer_new ==
    /\ ~panicked
    /\ drawer = None
    /\ drawer' = Some([ indices |-> <<>> ])
    /\ draws' = 0
    /\ camera' = WindowCamera
    /\ ret' = [ op |-> "drawer" ]
    /\ UNCHANGED << fonts, tfbl, panicked, loaded, hist, traceVars, keyVars,
                    parents, frames, callers >>

\* the Drawer goes out of scope
Drawer_drop ==
    /\ ~panicked
    /\ drawer # None
    /\ tfbl = None
    /\ drawer' = None
    /\ ret' = [ op |-> "enddraw" ]
    /\ draws' = 0
    /\ UNCHANGED << fonts, tfbl, panicked, loaded, hist, traceVars, keyVars, cameraVars,
                    parents >>

\* draw.rs:378-411  Drawer::character(color, ch, size, font), on a Drawer
\* that has made fewer than cap Transformables
Drawer_characterUpTo(cap, id, ch, size) ==
    /\ ~panicked
    /\ drawer # None
    /\ tfbl = None
    /\ draws < cap
    /\ MayMiss(id, 1)
    /\ \E o \in character(fonts, ch, size, id) :
         /\ fonts' = o.registry
         /\ panicked' = o.panic
         /\ hist' = [ hist EXCEPT ![id] = RecordCalls(@, o.calls, 1) ]
         /\ tfbl' = IF o.panic THEN None
                    ELSE Some(NewTransformable(o.tys))
         /\ ret' = [ op |-> "character", id |-> id, known |-> fonts[id] # None ]
    /\ draws' = draws + 1
    /\ UNCHANGED << drawer, loaded, traceVars, keyVars, cameraVars,
                    parents >>

Drawer_character(id, ch, size) ==
    Drawer_characterUpTo(MaxDraws, id, ch, size)

\* draw.rs:412-468  Drawer::text(color, string, size, font)
Drawer_text(id, string, size) ==
    /\ ~panicked
    /\ drawer # None
    /\ tfbl = None
    /\ draws < MaxDraws
    /\ MayMiss(id, Len(string))
    /\ \E o \in text(fonts, string, size, id) :
         /\ fonts' = o.registry
         /\ panicked' = o.panic
         /\ hist' = [ hist EXCEPT ![id] = RecordCalls(@, o.calls, 1) ]
         /\ tfbl' = IF o.panic THEN None ELSE Some(NewTransformable(o.tys))
         /\ ret' = [ op |-> "text", id |-> id, known |-> fonts[id] # None ]
    /\ draws' = draws + 1
    /\ UNCHANGED << drawer, loaded, traceVars, keyVars, cameraVars,
                    parents >>

\* draw.rs:579-655  Transformable::draw, called on the live Transformable
Transformable_draw ==
    /\ ~panicked
    /\ tfbl # None
    /\ tfbl[1].times < MaxCalls
    /\ LET d == draw(tfbl[1], drawer[1].indices)
       IN  /\ drawer' = Some([ indices |-> d.map ])
           /\ tfbl' = Some([ d.self EXCEPT !.called = TRUE ])
           /\ ret' = [ op |-> "draw", tys |-> tfbl[1].tys,
                       submitted |-> d.submitted, borders |-> d.borders ]
    /\ UNCHANGED << fonts, panicked, loaded, draws, hist, traceVars, keyVars, cameraVars,
                    parents >>

\* draw.rs:725-735  Drop for Transformable: draw unless drawn.  The live
\* Transformable goes out of scope and the one it was derived from, if any,
\* is no longer borrowed.
Transformable_drop ==
    /\ ~panicked
    /\ tfbl # None
    /\ LET self == tfbl[1]
           d == IF self.drawn
                THEN [ map |-> drawer[1].indices, submitted |-> <<>>,
                       borders |-> <<>>, self |-> self ]
                ELSE draw(self, drawer[1].indices)
       IN  /\ drawer' = Some([ indices |-> d.map ])
           /\ ret' = [ op |-> "drop", tys |-> self.tys,
                       drew |-> ~self.drawn,
                       submitted |-> d.submitted, borders |-> d.borders,
                       called |-> self.called, derived |-> self.derived,
                       times |-> d.self.times, depth |-> Len(parents) ]
    /\ tfbl' = IF parents = <<>> THEN None ELSE Some(parents[Len(parents)])
    /\ parents' = IF parents = <<>> THEN <<>>
                  ELSE SubSeq(parents, 1, Len(parents) - 1)
    /\ UNCHANGED << fonts, panicked, loaded, draws, hist, traceVars,
                    keyVars, cameraVars >>

\* a builder method called on the live Transformable: the child becomes the
\* live one and borrows its parent
Derive(r, op) ==
    /\ parents' = Append(parents, r.self)
    /\ tfbl' = Some(r.child)
    /\ ret' = [ op |-> op ]
    /\ UNCHANGED << fonts, drawer, panicked, loaded, draws, hist, traceVars,
                    keyVars, cameraVars >>

\* draw.rs:516-529
Transformable_color ==
    /\ ~panicked
    /\ tfbl # None
    /\ Len(parents) < MaxChain
    /\ Derive(color(tfbl[1]), "color")

\* draw.rs:530-546
Transformable_transform ==
    /\ ~panicked
    /\ tfbl # None
    /\ Len(parents) < MaxChain
    /\ Derive(transform(tfbl[1]), "transform")

\* draw.rs:547-567
Transformable_border ==
    /\ ~panicked
    /\ tfbl # None
    /\ Len(parents) < MaxChain
    /\ Derive(border(tfbl[1]), "border")

\* draw.rs:568-578
Transformable_no_border ==
    /\ ~panicked
    /\ tfbl # None
    /\ Len(parents) < MaxChain
    /\ Derive(no_border(tfbl[1]), "no_border")

Next ==
    \/ \E id \in FontIds, data \in FontData : Fonts_load(id, data)
    \/ \E id \in FontIds : Fonts_get(id)
    \/ \E id \in FontIds, ch \in Chars, size \in Sizes :
         GlyphCache_glyph(id, ch, size)
    \/ \E id \in FontIds, ch \in Chars, size \in Sizes :
         GlyphCache_metrics(id, ch, size)
    \/ Drawer_new
    \/ Drawer_drop
    \/ \E id \in FontIds, ch \in Chars, size \in GlyphSizes :
         Drawer_character(id, ch, size)
    \/ \E id \in FontIds, string \in Strings, size \in GlyphSizes :
         Drawer_text(id, string, size)
    \/ Transformable_draw
    \/ Transformable_drop

Spec == Init /\ [][Next]_vars

\* A Drawer at work: two fonts are registered and the Drawer has been made
\* (the state after Fonts_load("f1", "ttfA"), Fonts_load("f2", "ttfB") and
\* Drawer_new).
ChainFonts == [ f1 |-> "ttfA", f2 |-> "ttfB" ]

ChainInit ==
    /\ fonts = [ id \in FontIds |->
                   load([ i \in FontIds |-> None ], id,
                        ChainFonts[id]).registry[id] ]
    /\ drawer = Some([ indices |-> <<>> ])
    /\ tfbl = None
    /\ parents = <<>>
    /\ panicked = FALSE
    /\ ret = [ op |-> "drawer" ]
    /\ loaded = [ id \in FontIds |-> TRUE ]
    /\ draws = 0
    /\ hist = [ id \in FontIds |-> EmptyHist ]
    /\ keys = {}
    /\ lastKey = [ k \in Key |-> "None" ]
    /\ camera = WindowCamera
    /\ frames = <<>>
    /\ callers = <<>>
    /\ bitmap = [ width |-> 0, height |-> 0, bytes |-> <<>> ]
    /\ edges = {}
    /\ polys = <<>>
    /\ nes = <<>>
    /\ geom = None
    /\ pc = "idle"

\* the Drawer's character draws with the builder methods of Transformable
ChainNext ==
    \/ \E id \in FontIds, ch \in Chars, size \in GlyphSizes :
         Drawer_characterUpTo(MaxChainDraws, id, ch, size)
    \/ Transformable_color
    \/ Transformable_transform
    \/ Transformable_border
    \/ Transformable_no_border
    \/ Transformable_draw
    \/ Transformable_drop

SpecChain == ChainInit /\ [][ChainNext]_vars

(***************************************************************************)
(* Properties of the cache, the registry and the drawer (Spec)             *)
(***************************************************************************)
Pairs == Chars \X Sizes

\* the step is a successful load of id
Reloads(id) == ret'.op = "load" /\ ret'.result = "Ok" /\ ret'.id = id

Geometry(id) == fonts[id][1].geometry

IsGlyphCall(r) == r.op \in { "glyph", "metrics" }

\* what a glyph or metrics call returns of an entry
Returned(r, entry) == IF r.op = "glyph" THEN entry ELSE entry.metrics

\* C1: on one cache, vectorize (and with it the rasterizer) has run exactly
\* once for every pair requested and never for another one, the entry the
\* first call returned is the stored one, and every glyph or metrics call
\* that returns gives that entry (metrics: its Metrics).
C1_VectorizedOncePerKey ==
    /\ \A id \in FontIds : \A pr \in Pairs :
         /\ hist[id].count[pr] = IF pr \in hist[id].requested THEN 1 ELSE 0
         /\ Cardinality({ c \in hist[id].raster : << c.ch, c.size >> = pr })
              = hist[id].count[pr]
         /\ pr \in DOMAIN hist[id].first =>
              /\ fonts[id] # None
              /\ GlyphKey(pr[1], pr[2]) \in DOMAIN Geometry(id)
              /\ Geometry(id)[GlyphKey(pr[1], pr[2])] = hist[id].first[pr]
    /\ (IsGlyphCall(ret) /\ ~panicked) =>
         /\ << ret.ch, ret.size >> \in DOMAIN hist[ret.id].first
         /\ ret.value = Some(Returned(ret, hist[ret.id].first[<< ret.ch, ret.size >>]))

C1_Witness ==
    /\ ret.op = "glyph"
    /\ ~ret.miss
    /\ ret.value # None
    /\ ret.value[1].geometry.vertices # <<>>
    /\ hist[ret.id].count[<< ret.ch, ret.size >>] = 1

\* C3: every rasterizer call made for a pair (c, r) asks for character c at
\* pixel size r, and the entry made for (c, r) has the metrics of the bitmap
\* of c at pixel size r.
C3_RasterizedAtRequestedSize ==
    \A id \in FontIds :
      /\ \A c \in hist[id].raster : c.px = c.size
      /\ \A pr \in DOMAIN hist[id].made :
           LET bm == rasterize(fonts[id][1].font, pr[1], pr[2])
           IN  hist[id].made[pr].metrics
                 = [ width |-> bm.width, height |-> bm.height ]

\* C4: requested pairs that differ have different keys; a call that returns
\* gives the entry that was vectorized for its own pair; and a glyph or
\* metrics call for one pair leaves the entries under all other keys as
\* they are.
C4_Inv ==
    /\ \A id \in FontIds :
         \A p1 \in hist[id].requested, p2 \in hist[id].requested :
           p1 # p2 => GlyphKey(p1[1], p1[2]) # GlyphKey(p2[1], p2[2])
    /\ (IsGlyphCall(ret) /\ ~panicked) =>
         /\ << ret.ch, ret.size >> \in DOMAIN hist[ret.id].made
         /\ ret.value = Some(Returned(ret, hist[ret.id].made[<< ret.ch, ret.size >>]))
    /\ \A id \in FontIds : \A pr \in DOMAIN hist[id].made :
         /\ fonts[id] # None
         /\ << pr[1], to_bits(pr[2]) >> \in DOMAIN Geometry(id)
         /\ Geometry(id)[<< pr[1], to_bits(pr[2]) >>] = hist[id].made[pr]

C4_Step ==
    \A id \in FontIds :
      (fonts[id] # None /\ ~Reloads(id)) =>
        \A k \in DOMAIN Geometry(id) :
          (IsGlyphCall(ret') /\ k # << ret'.ch, to_bits(ret'.size) >>) =>
            /\ k \in DOMAIN fonts'[id][1].geometry
            /\ fonts'[id][1].geometry[k] = Geometry(id)[k]

C4_KeysNeverCollide == []C4_Inv /\ [][C4_Step]_vars

C4_Witness ==
    /\ ret.op = "glyph"
    /\ ret.miss
    /\ ~panicked
    /\ ret.value[1].geometry.vertices # <<>>
    /\ \E sz \in Sizes :
         /\ sz # ret.size
         /\ << ret.ch, sz >> \in DOMAIN hist[ret.id].made

\* C5: while the run has not panicked a cache holds as many entries as
\* pairs were requested on it, and no step removes or replaces an entry of
\* a cache that stays registered.
C5_Inv ==
    ~panicked =>
      \A id \in FontIds :
        fonts[id] # None =>
          Cardinality(DOMAIN Geometry(id)) = Cardinality(hist[id].requested)

C5_Step ==
    \A id \in FontIds :
      (fonts[id] # None /\ ~Reloads(id)) =>
        /\ fonts'[id] # None
        /\ \A k \in DOMAIN Geometry(id) :
             /\ k \in DOMAIN fonts'[id][1].geometry
             /\ fonts'[id][1].geometry[k] = Geometry(id)[k]

C5_EntriesOnlyGrow == []C5_Inv /\ [][C5_Step]_vars

C5_Witness ==
    /\ ~panicked
    /\ \E id \in FontIds :
         /\ fonts[id] # None
         /\ Cardinality(DOMAIN Geometry(id)) >= 2
         /\ Cardinality(hist[id].requested) >= 2

\* C6: a glyph or metrics call during which the tessellator failed returns
\* normally, with an empty geometry that it stored under the call's key.
C6_TessFailureGivesEmptyGeometry ==
    (IsGlyphCall(ret) /\ ret.miss /\ ~ret.tess_ok) =>
      /\ ~panicked
      /\ ret.value # None
      /\ GlyphKey(ret.ch, ret.size) \in DOMAIN Geometry(ret.id)
      /\ Geometry(ret.id)[GlyphKey(ret.ch, ret.size)].geometry = EmptyGeometry

\* C8: load returns Err exactly for bytes that do not parse, and a load
\* that returns Err leaves the whole registry as it was.
C8_Inv ==
    ret.op = "load" => (ret.result = "Err" <=> from_bytes(ret.data) = None)

C8_Step ==
    (ret'.op = "load" /\ ret'.result = "Err") => fonts' = fonts

C8_FailedLoadKeepsRegistry == []C8_Inv /\ [][C8_Step]_vars

C8_Witness ==
    /\ ret.op = "load"
    /\ ret.result = "Err"
    /\ fonts[ret.id] # None
    /\ DOMAIN Geometry(ret.id) # {}
    /\ \E id \in FontIds : fonts[id] = None

\* C9: for an identifier that was never loaded get returns None, character
\* and text return without panic a Transformable of the one draw type
\* Empty, drawing it submits one draw without vertices, and none of these
\* requests changes the registry.
C9_Inv ==
    /\ (ret.op = "get" /\ ~loaded[ret.id]) => ret.value = None
    /\ (ret.op \in { "character", "text" } /\ ~loaded[ret.id]) =>
         /\ ~panicked
         /\ ~ret.known
         /\ tfbl = Some(NewTransformable(<< EmptyType >>))
         /\ fonts[ret.id] = None
    /\ (ret.op \in { "draw", "drop" } /\ ret.tys = << EmptyType >>
          /\ (ret.op = "drop" => ret.drew)) =>
         /\ Len(ret.submitted) = 1
         /\ ret.submitted[1].vertices = <<>>

C9_Step ==
    (ret'.op \in { "get", "character", "text" } /\ ~loaded[ret'.id]) =>
      fonts' = fonts

C9_UnknownFontDrawsNothing == []C9_Inv /\ [][C9_Step]_vars

C9_Witness ==
    /\ ret.op = "drop"
    /\ ret.drew
    /\ ret.tys = << EmptyType >>
    /\ Len(ret.submitted) = 1
    /\ ret.submitted[1].vertices = <<>>
    /\ \E id \in FontIds : fonts[id] = None /\ ~loaded[id]

(***************************************************************************)
(* GlyphCache::vectorize step by step, on any bitmap                       *)
(***************************************************************************)
TraceInit ==
    /\ AppInit
    /\ bitmap \in Bitmaps
    /\ edges = {}
    /\ polys = <<>>
    /\ nes = <<>>
    /\ geom = None
    /\ pc = "detect"

\* font.rs:85-98
Detect ==
    /\ pc = "detect"
    /\ edges' = DetectEdges(bitmap)
    /\ pc' = "trace"
    /\ UNCHANGED << appVars, keyVars, cameraVars, bitmap, polys, nes, geom >>

\* font.rs:124-125  while let Some(first) = edges.iter().next(): the set's
\* iteration order is unspecified, so first is any element
TracePick ==
    /\ pc = "trace"
    /\ \E first \in edges :
         /\ edges' = edges \ { first }
         /\ nes' = << first >>
    /\ pc' = "push"
    /\ UNCHANGED << appVars, keyVars, cameraVars, bitmap, polys, geom >>

\* font.rs:126  polys.push(vec![first])
TracePush ==
    /\ pc = "push"
    /\ polys' = Append(polys, NewPoly(nes[1]))
    /\ nes' = <<>>
    /\ pc' = "scan"
    /\ UNCHANGED << appVars, keyVars, cameraVars, bitmap, edges, geom >>

\* font.rs:129-137  the neighbours of the contour's last point; none: break
TraceBreak ==
    /\ pc = "scan"
    /\ LET poly == polys[Len(polys)]
           p == poly[Len(poly)]
       IN  neighbor_edges(p, edges, bitmap.width, bitmap.height) = <<>>
    /\ pc' = "trace"
    /\ UNCHANGED << appVars, keyVars, cameraVars, bitmap, edges, polys, nes, geom >>

TraceScan ==
    /\ pc = "scan"
    /\ LET poly == polys[Len(polys)]
           p == poly[Len(poly)]
           found == neighbor_edges(p, edges, bitmap.width, bitmap.height)
       IN  /\ found # <<>>
           /\ nes' = found
    /\ pc' = "remove"
    /\ UNCHANGED << appVars, keyVars, cameraVars, bitmap, edges, polys, geom >>

\* font.rs:138-140
TraceRemove ==
    /\ pc = "remove"
    /\ edges' = edges \ Removed(nes)
    /\ pc' = "extend"
    /\ UNCHANGED << appVars, keyVars, cameraVars, bitmap, polys, nes, geom >>

\* font.rs:141
TraceExtend ==
    /\ pc = "extend"
    /\ polys' = [ polys EXCEPT ![Len(polys)] = Extended(@, nes) ]
    /\ nes' = <<>>
    /\ pc' = "scan"
    /\ UNCHANGED << appVars, keyVars, cameraVars, bitmap, edges, geom >>

\* font.rs:124  the while let ends when edges is empty
TraceEnd ==
    /\ pc = "trace"
    /\ edges = {}
    /\ pc' = "triangulate"
    /\ UNCHANGED << appVars, keyVars, cameraVars, bitmap, edges, polys, nes, geom >>

\* font.rs:146-167
Tessellate ==
    /\ pc = "triangulate"
    /\ \E tess_ok \in TessResults(polys) :
         LET res == Triangulate(polys, tess_ok)
         IN  /\ pc' = IF res.panic THEN "panic" ELSE "done"
             /\ geom' = IF res.panic THEN None ELSE Some(res.geometry)
    /\ UNCHANGED << appVars, keyVars, cameraVars, bitmap, edges, polys, nes >>

TraceNext ==
    \/ Detect
    \/ TracePick
    \/ TracePush
    \/ TraceBreak
    \/ TraceScan
    \/ TraceRemove
    \/ TraceExtend
    \/ TraceEnd
    \/ Tessellate

SpecTrace == TraceInit /\ [][TraceNext]_vars

\* vectorize is sequential code: a statement that can run does run
SpecTraceFair == SpecTrace /\ WF_vars(TraceNext)

(***************************************************************************)
(* Properties of the pipeline (SpecTrace)                                  *)
(***************************************************************************)
TraceFinished == pc \in { "triangulate", "done", "panic" }

\* the pixels of the output contours, in order, and how often p is among them
ContourPoints == Flatten(polys)

Occurrences(p) ==
    Cardinality({ i \in 1..Len(ContourPoints) : ContourPoints[i] = p })

AllZero(bm) == \A i \in 1..Len(bm.bytes) : bm.bytes[i] = 0

\* C2: once tracing is over, every pixel of the bitmap's boundary set is in
\* exactly one contour, exactly once.
C2_EveryBoundaryPixelInOneContour ==
    TraceFinished => \A p \in DetectEdges(bitmap) : Occurrences(p) = 1

\* C7: on a bitmap without a covered pixel (zero width or height included)
\* vectorize runs detect, trace, triangulate and returns: it never panics,
\* never finds a boundary pixel or starts a contour, and the geometry it
\* returns has no vertex and no index.
C7_EmptyBitmapEmptyGeometry ==
    AllZero(bitmap) =>
        /\ pc \in { "detect", "trace", "triangulate", "done" }
        /\ edges = {}
        /\ polys = <<>>
        /\ (pc = "done" => geom = Some(EmptyGeometry))
        /\ (pc # "done" => ENABLED TraceNext)

C7_Witness ==
    /\ AllZero(bitmap)
    /\ Len(bitmap.bytes) >= 4
    /\ pc = "done"
    /\ geom = Some(EmptyGeometry)

\* C10: at every step of the tracing no pixel is twice in the contours, a
\* pixel that is in a contour (or about to be pushed) is no longer in
\* edges, and edges is empty once the tracing is over.
C10_PixelsConsumedOnce ==
    /\ \A i, j \in 1..Len(ContourPoints) :
          i # j => ContourPoints[i] # ContourPoints[j]
    /\ \A i \in 1..Len(ContourPoints) : ContourPoints[i] \notin edges
    /\ (pc = "push" => nes[1] \notin edges)
    /\ (pc = "extend" => nes[1] \notin edges)
    /\ (TraceFinished => edges = {})

C10_Witness ==
    /\ pc = "done"
    /\ Len(polys) >= 2
    /\ \E k \in 1..Len(polys) : Len(polys[k]) >= 3

\* the eight positions around a pixel, as offsets
Offsets == ((-1..1) \X (-1..1)) \ { << 0, 0 >> }

InBounds(bm, p) ==
    /\ 0 <= p[1] /\ p[1] < bm.width
    /\ 0 <= p[2] /\ p[2] < bm.height

Covered(bm, p) == InBounds(bm, p) /\ bm.bytes[p[2] * bm.width + p[1] + 1] > 0

\* how many of the eight positions around p are outside or uncovered
UncoveredAround(bm, p) ==
    Cardinality({ d \in Offsets :
                    ~Covered(bm, << p[1] + d[1], p[2] + d[2] >>) })

\* the state right after the detection loop
Detected == pc = "trace" /\ polys = <<>>

\* C11: after detection a pixel is in the BoundarySet exactly when it is
\* covered and between 1 and 7 of the eight positions around it are
\* uncovered, a position outside the bitmap counting as uncovered; a covered
\* pixel with 0 or 8 of them uncovered is not in it.
C11_BoundaryIffOneToSevenUncovered ==
    Detected =>
      /\ \A p \in edges : InBounds(bitmap, p)
      /\ \A x \in 0..(bitmap.width - 1), y \in 0..(bitmap.height - 1) :
           LET p == << x, y >>
               n == UncoveredAround(bitmap, p)
           IN  /\ p \in edges <=> (Covered(bitmap, p) /\ 1 <= n /\ n <= 7)
               /\ (Covered(bitmap, p) /\ n \in { 0, 8 }) => p \notin edges

C11_Witness ==
    /\ Detected
    /\ bitmap.width = 3 /\ bitmap.height = 3
    /\ Covered(bitmap, << 1, 1 >>)
    /\ UncoveredAround(bitmap, << 1, 1 >>) = 0
    /\ << 1, 1 >> \notin edges
    /\ Cardinality(edges) = 8

Abs(n) == IF n < 0 THEN 0 - n ELSE n

\* p and q are the same pixel or one of the eight positions around each other
Touching(p, q) == Abs(p[1] - q[1]) <= 1 /\ Abs(p[2] - q[2]) <= 1

\* C12: once tracing is over, the first and the last point of every contour
\* are adjacent pixels (a contour of one pixel counting as closed).
C12_ContoursAreClosedLoops ==
    TraceFinished =>
      \A k \in 1..Len(polys) :
        polys[k] # <<>> => Touching(polys[k][1], polys[k][Len(polys[k])])

(***************************************************************************)
(* GlyphCache::vectorize step by step, on ring-shaped bitmaps              *)
(***************************************************************************)
\* a filled square with an empty square of side m in its middle, the wall
\* between them t pixels thick
Ring(m, t) ==
    LET n == m + 2 * t
    IN  [ width |-> n, height |-> n,
          bytes |-> [ i \in 1..(n * n) |->
                        LET x == (i - 1) % n
                            y == (i - 1) \div n
                        IN  IF /\ t <= x /\ x < t + m
                               /\ t <= y /\ y < t + m
                            THEN 0 ELSE 255 ] ]

RingShapes == (1..MaxHole) \X (1..MaxWall)

Rings == { Ring(sh[1], sh[2]) : sh \in RingShapes }

RingInit ==
    /\ AppInit
    /\ bitmap \in Rings
    /\ edges = {}
    /\ polys = <<>>
    /\ nes = <<>>
    /\ geom = None
    /\ pc = "detect"

SpecRing == RingInit /\ [][TraceNext]_vars

(***************************************************************************)
(* Properties of the pipeline on rings (SpecRing)                          *)
(***************************************************************************)
\* the shape of a ring bitmap
RingOf(bm) == CHOOSE sh \in RingShapes : bm = Ring(sh[1], sh[2])

Wall(bm) == RingOf(bm)[2]

PointsOf(poly) == { poly[i] : i \in 1..Len(poly) }

\* the pixels along the outside of the filled square
OuterEdge(bm) ==
    { p \in (0..(bm.width - 1)) \X (0..(bm.height - 1)) :
        \/ p[1] \in { 0, bm.width - 1 }
        \/ p[2] \in { 0, bm.height - 1 } }

\* the covered pixels around the hole
InnerEdge(bm) ==
    { p \in (0..(bm.width - 1)) \X (0..(bm.height - 1)) :
        /\ Covered(bm, p)
        /\ \E d \in Offsets :
             LET q == << p[1] + d[1], p[2] + d[2] >>
             IN  InBounds(bm, q) /\ ~Covered(bm, q) }

\* two contours, one along the outer edge and one along the inner edge
TwoContours ==
    /\ Len(polys) = 2
    /\ \E k \in 1..2 :
         /\ polys[k] # <<>> /\ PointsOf(polys[k]) \subseteq OuterEdge(bitmap)
         /\ polys[3 - k] # <<>>
         /\ PointsOf(polys[3 - k]) \subseteq InnerEdge(bitmap)

\* C13 as stated: once tracing is over, a ring bitmap has given exactly two
\* contours, one of the outer and one of the inner edge, whatever the start
\* pixels were.
C13_RingGivesTwoContours == TraceFinished => TwoContours

\* C13, for rings whose wall is at least three pixels thick (the pixels of
\* the outer and of the inner edge are then not 4-neighbours): once tracing
\* is over there are exactly two contours, one of the outer and one of the
\* inner edge, whatever the start pixels were.
C13_ThickRingGivesTwoContours ==
    (TraceFinished /\ Wall(bitmap) >= 3) => TwoContours

C13_Witness ==
    /\ pc = "done"
    /\ Wall(bitmap) >= 3
    /\ TwoContours
    /\ DetectEdges(bitmap) = OuterEdge(bitmap) \cup InnerEdge(bitmap)

(***************************************************************************)
(* More properties of the pipeline (SpecTrace)                             *)
(***************************************************************************)
\* C14: at every step every contour in polys holds at least one point, its
\* first being the start pixel it was pushed with, so that building the path
\* never takes the first point of an empty contour: a panic of vectorize is
\* never the unwrap of line 150.
C14_NoContourEmpty ==
    /\ \A k \in 1..Len(polys) :
         /\ Len(polys[k]) >= 1
         /\ polys[k][1] \in DetectEdges(bitmap)
    /\ (pc = "scan" => polys # <<>>)
    /\ ~PathOf(polys).panic

C14_Witness ==
    /\ pc = "done"
    /\ \E k \in 1..Len(polys) : Len(polys[k]) = 1
    /\ \E k \in 1..Len(polys) : Len(polys[k]) >= 2
    /\ Len(geom[1].vertices) = Len(ContourPoints)

(***************************************************************************)
(* More properties of the cache, the registry and the drawer (Spec)        *)
(***************************************************************************)
\* C15: a metrics call that returns gives the Metrics of the entry stored
\* under its key, which is the entry a glyph call for the same pair then
\* returns without running vectorize; a metrics call for a key that is
\* cached runs no vectorize and changes nothing, and one for a key that is
\* not cached runs it once and stores the entry.
C15_Inv ==
    (ret.op = "metrics" /\ ~panicked) =>
      LET key == GlyphKey(ret.ch, ret.size)
      IN  /\ fonts[ret.id] # None
          /\ key \in DOMAIN Geometry(ret.id)
          /\ ret.value = Some(Geometry(ret.id)[key].metrics)
          /\ \A o \in glyph(fonts[ret.id][1], ret.ch, ret.size) :
               /\ ~o.miss /\ ~o.panic
               /\ o.ret = Some(Geometry(ret.id)[key])
               /\ o.ret[1].metrics = ret.value[1]
               /\ o.cache = fonts[ret.id][1]

C15_Step ==
    /\ (ret'.op = "metrics" /\ fonts[ret'.id] # None) =>
         LET id == ret'.id
             key == GlyphKey(ret'.ch, ret'.size)
         IN  IF key \in DOMAIN Geometry(id)
             THEN /\ ~ret'.miss
                  /\ fonts' = fonts
                  /\ hist'[id].raster = hist[id].raster
             ELSE /\ ret'.miss
                  /\ Cardinality(hist'[id].raster)
                       = Cardinality(hist[id].raster) + 1
                  /\ ~panicked' => key \in DOMAIN fonts'[id][1].geometry
    /\ ( /\ ret.op = "metrics" /\ ~panicked
         /\ ret'.op = "glyph" /\ ret'.id = ret.id
         /\ ret'.ch = ret.ch /\ ret'.size = ret.size ) =>
         /\ ~ret'.miss
         /\ ret'.value # None
         /\ ret'.value[1].metrics = ret.value[1]
         /\ hist'[ret.id].raster = hist[ret.id].raster

C15_MetricsIsGlyphMetrics == []C15_Inv /\ [][C15_Step]_vars

C15_Witness ==
    /\ ret.op = "metrics"
    /\ ret.miss
    /\ ~panicked
    /\ ret.value # None
    /\ ret.value[1].height > 0
    /\ Cardinality(DOMAIN Geometry(ret.id)) >= 2

(***************************************************************************)
(* Termination of the tracing (SpecTraceFair)                              *)
(***************************************************************************)
\* C16: no step of vectorize puts a pixel into edges after detection, every
\* start of a contour and every extension step takes at least one pixel out
\* of it, and on every bitmap and for every choice of start pixels the
\* tracing comes to its end with edges empty.
C16_Step ==
    /\ pc # "detect" => edges' \subseteq edges
    /\ (pc = "trace" /\ pc' = "push") =>
         Cardinality(edges') < Cardinality(edges)
    /\ (pc = "remove" /\ pc' = "extend") =>
         Cardinality(edges') < Cardinality(edges)

C16_TracingTerminates ==
    /\ [][C16_Step]_vars
    /\ <>(TraceFinished /\ edges = {})

C16_Witness ==
    /\ pc = "triangulate"
    /\ edges = {}
    /\ Len(polys) >= 3
    /\ \E k \in 1..Len(polys) : Len(polys[k]) >= 2

(***************************************************************************)
(* Properties of drawing (Spec)                                            *)
(***************************************************************************)
\* C17: in every draw of a Transformable, each character draw type is
\* submitted with an index buffer whose contents are the index sequence of
\* the glyph geometry its vertices were taken from.
C17_IndexBufferMatchesGlyph ==
    ret.op \in { "draw", "drop" } =>
      \A k \in 1..Len(ret.submitted) :
        ret.tys[k].type = "Character" =>
          /\ ret.submitted[k].vertices = ret.tys[k].vertices
          /\ ret.submitted[k].indices.data = ret.tys[k].indices

(***************************************************************************)
(* The key tracker: keyboard events and reads of tracker.keys              *)
(***************************************************************************)
ButtonStates == { "Pressed", "Released" }

\* event.rs:70-85  Event::from_glutin on WindowEvent::KeyboardInput
KeyboardInput(code, state) ==
    /\ ~panicked
    /\ LET key == KeyOfInput(code)
       IN  \E v \in Key_into(key) :
             /\ panicked' = v.panic
             /\ keys' = IF v.panic THEN keys
                        ELSE IF state = "Pressed" THEN Bits_add(keys, v.bits)
                        ELSE Bits_remove(keys, v.bits)
             /\ lastKey' = [ lastKey EXCEPT ![key] = state ]
             /\ ret' = [ op |-> "key", key |-> key, state |-> state ]
    /\ UNCHANGED << fonts, drawer, tfbl, parents, loaded, draws, hist,
                    traceVars, cameraVars >>

\* event.rs:156-158  tracker.keys.get(key)
Tracker_get(key) ==
    /\ ~panicked
    /\ \E v \in Key_into(key) :
         /\ panicked' = v.panic
         /\ ret' = [ op |-> "keys.get", key |-> key,
                     value |-> IF v.panic THEN None
                               ELSE Some(Bits_get(keys, v.bits)) ]
    /\ UNCHANGED << fonts, drawer, tfbl, parents, loaded, draws, hist,
                    traceVars, keyVars, cameraVars >>

KeysNext ==
    \/ \E code \in { None } \cup { Some(k) : k \in VirtualKeyCodes },
          state \in ButtonStates : KeyboardInput(code, state)
    \/ \E key \in Key : Tracker_get(key)

SpecKeys == Init /\ [][KeysNext]_vars

\* C18: no keyboard event and no read of the tracker panics, a read of key k
\* returns true exactly when the latest keyboard event for k was Pressed,
\* and a keyboard event for one key leaves what is read for every other key
\* as it was.
C18_Inv ==
    /\ ret.op \in { "key", "keys.get" } => ~panicked
    /\ (ret.op = "keys.get" /\ ~panicked) =>
         ret.value = Some(lastKey[ret.key] = "Pressed")

C18_Step ==
    (ret'.op = "key" /\ ~panicked') =>
      \A k \in Key \ { ret'.key } :
        \A v \in Key_into(k) :
          ~v.panic => Bits_get(keys', v.bits) = Bits_get(keys, v.bits)

C18_HeldIffLastPressed == []C18_Inv /\ [][C18_Step]_vars

(***************************************************************************)
(* Properties of the builder chain (SpecChain)                             *)
(***************************************************************************)
\* C19: a Transformable that is dropped draws itself exactly when draw() was
\* never called on it and no child was derived from it, and then it draws
\* every one of its draw types once; a Transformable on which draw() was
\* never called has, when it is dropped, been drawn once if it has no child
\* (the last of a chain) and never if it has one (an intermediate one).
C19_Inv ==
    /\ ret.op = "drop" =>
         /\ ret.drew = (~ret.called /\ ~ret.derived)
         /\ ret.drew => Len(ret.submitted) = Len(ret.tys)
         /\ ~ret.drew => (ret.submitted = <<>> /\ ret.borders = <<>>)
         /\ ~ret.called => ret.times = IF ret.derived THEN 0 ELSE 1
    /\ \A k \in 1..Len(parents) :
         /\ parents[k].derived
         /\ parents[k].drawn
         /\ ~parents[k].called => parents[k].times = 0
    /\ tfbl # None =>
         /\ tfbl[1].drawn = (tfbl[1].called \/ tfbl[1].derived)
         /\ ~tfbl[1].called => tfbl[1].times = 0

\* a step draws only as the draw() or the drop of the live Transformable
C19_Step ==
    (drawer # None /\ drawer' # None /\ drawer'[1] # drawer[1]) =>
      ret'.op \in { "draw", "drop" }

C19_DropDrawsUndrawnLeaf == []C19_Inv /\ [][C19_Step]_vars

C19_Witness ==
    /\ ret.op = "drop"
    /\ ~ret.drew
    /\ ret.derived
    /\ ~ret.called
    /\ ret.times = 0
    /\ ret.tys # <<>>
    /\ ret.tys[1].type = "Character"
    /\ DOMAIN drawer[1].indices # {}

(***************************************************************************)
(* Properties of reloading a font (Spec)                                   *)
(***************************************************************************)
\* C20: after a load that returns Ok the identifier's cache is a new one of
\* the font loaded, without any entry, so that a glyph call for any pair,
\* those cached before included, runs vectorize again; the load leaves the
\* caches of all other identifiers as they were, and a glyph or metrics call
\* for a key that is not in the cache runs vectorize.
C20_Inv ==
    (ret.op = "load" /\ ret.result = "Ok") =>
      /\ fonts[ret.id] = Some(NewGlyphCache(from_bytes(ret.data)[1]))
      /\ DOMAIN Geometry(ret.id) = {}
      /\ \A pr \in Pairs :
           \A o \in glyph(fonts[ret.id][1], pr[1], pr[2]) : o.miss

C20_Step ==
    /\ (ret'.op = "load" /\ ret'.result = "Ok") =>
         \A id \in FontIds \ { ret'.id } : fonts'[id] = fonts[id]
    /\ (IsGlyphCall(ret') /\ fonts[ret'.id] # None
          /\ GlyphKey(ret'.ch, ret'.size) \notin DOMAIN Geometry(ret'.id)) =>
         ret'.miss

C20_ReloadReplacesCache == []C20_Inv /\ [][C20_Step]_vars

C20_Witness ==
    /\ ret.op = "load"
    /\ ret.result = "Ok"
    /\ ret.had # None
    /\ ret.had[1] # {}
    /\ DOMAIN Geometry(ret.id) = {}
    /\ \E id \in FontIds \ { ret.id } :
         fonts[id] # None /\ DOMAIN Geometry(id) # {}

(***************************************************************************)
(* The shape of the contours (SpecTrace)                                   *)
(***************************************************************************)
\* p and q are orthogonally adjacent pixels
FourConnected(p, q) == Abs(p[1] - q[1]) + Abs(p[2] - q[2]) = 1

\* C22: at every step of the tracing, in every contour each point and the
\* one after it are orthogonally adjacent pixels, and every point of a
\* contour is a covered pixel of the bitmap that detection put into edges.
C22_ContoursAreFourConnectedPaths ==
    \A k \in 1..Len(polys) :
      /\ \A i \in 1..(Len(polys[k]) - 1) :
           FourConnected(polys[k][i], polys[k][i + 1])
      /\ \A i \in 1..Len(polys[k]) :
           /\ InBounds(bitmap, polys[k][i])
           /\ Covered(bitmap, polys[k][i])
           /\ polys[k][i] \in DetectEdges(bitmap)

C22_Witness ==
    /\ pc = "done"
    /\ \E k \in 1..Len(polys) :
         /\ Len(polys[k]) >= 4
         /\ \E i, j \in 1..Len(polys[k]) :
              /\ polys[k][i][1] # polys[k][j][1]
              /\ polys[k][i][2] # polys[k][j][2]

(***************************************************************************)
(* The Drawer's camera across with_camera and with_absolute_camera         *)
(***************************************************************************)
\* draw.rs:110-117  with_camera(camera, d) up to the call of d
Drawer_with_camera(f) ==
    /\ ~panicked
    /\ drawer # None
    /\ Len(frames) < MaxNesting
    /\ LET c == with_camera_call(camera, f)
       IN  /\ frames' = Append(frames, [ fn |-> "with_camera",
                                         base_camera |-> c.base_camera ])
           /\ camera' = c.camera
    /\ callers' = Append(callers, camera)
    /\ ret' = [ op |-> "call", fn |-> "with_camera" ]
    /\ UNCHANGED << fonts, drawer, tfbl, parents, panicked, loaded, draws,
                    hist, traceVars, keyVars >>

\* draw.rs:122-133  with_absolute_camera(d) up to the call of d
Drawer_with_absolute_camera ==
    /\ ~panicked
    /\ drawer # None
    /\ Len(frames) < MaxNesting
    /\ LET c == with_absolute_camera_call(camera)
       IN  /\ frames' = Append(frames, [ fn |-> "with_absolute_camera",
                                         base_camera |-> c.base_camera ])
           /\ camera' = c.camera
    /\ callers' = Append(callers, camera)
    /\ ret' = [ op |-> "call", fn |-> "with_absolute_camera" ]
    /\ UNCHANGED << fonts, drawer, tfbl, parents, panicked, loaded, draws,
                    hist, traceVars, keyVars >>

\* draw.rs:117-119  the closure d of the innermost call returns: the camera
\* is put back and the call returns
Closure_return ==
    /\ ~panicked
    /\ frames # <<>>
    /\ LET top == frames[Len(frames)]
       IN  /\ camera' = with_camera_return(top.base_camera, camera)
           /\ ret' = [ op |-> "return", fn |-> top.fn, camera |-> camera',
                       caller |-> callers[Len(callers)],
                       installed |-> camera, depth |-> Len(frames) ]
    /\ frames' = SubSeq(frames, 1, Len(frames) - 1)
    /\ callers' = SubSeq(callers, 1, Len(callers) - 1)
    /\ UNCHANGED << fonts, drawer, tfbl, parents, panicked, loaded, draws,
                    hist, traceVars, keyVars >>

\* draw.rs:117  the closure d panics: line 118 is not reached
Closure_panic ==
    /\ ~panicked
    /\ frames # <<>>
    /\ panicked' = TRUE
    /\ ret' = [ op |-> "panic" ]
    /\ UNCHANGED << fonts, drawer, tfbl, parents, loaded, draws, hist,
                    traceVars, keyVars, cameraVars >>

CameraNext ==
    \/ Drawer_new
    \/ \E f \in CameraFns : Drawer_with_camera(f)
    \/ Drawer_with_absolute_camera
    \/ Closure_return
    \/ Closure_panic

SpecCamera == Init /\ [][CameraNext]_vars

\* a call of with_camera or with_absolute_camera has just returned
CameraCallReturned == ret.op = "return"

C21_Inv ==
    /\ CameraCallReturned =>
         /\ ret.camera = ret.caller
         /\ camera = ret.caller
    /\ (drawer # None /\ frames = <<>> /\ ~panicked) => camera = WindowCamera

C21_Step ==
    (Len(frames') < Len(frames)) => camera' = callers[Len(callers)]

\* C21: when a call of with_camera or with_absolute_camera returns normally,
\* the Drawer's camera is the camera it had when the call was made, at every
\* depth of nesting and whatever camera was installed in between; outside
\* every such call the Drawer's camera is the one it was constructed with.
C21_CameraRestoredOnReturn == []C21_Inv /\ [][C21_Step]_vars

\* an inner call returns whose caller was itself running under an installed
\* camera, and the inner call had installed yet another camera
C21_Witness ==
    /\ CameraCallReturned
    /\ ret.depth = 2
    /\ ret.installed # ret.caller
    /\ ret.caller # WindowCamera
    /\ camera = ret.caller

====
